---- MODULE Spec2Model ----
(***************************************************************************)
(* A model of src/src/linux.rs (crate uio): the UioDevice handle, its      *)
(* advisory lock on /dev/uioN, the sysfs attribute readers, the mapping    *)
(* calls and the interrupt calls.                                          *)
(*                                                                         *)
(* Text is a sequence of one-character strings.  usize is UsizeBits wide   *)
(* and libc::off_t is the signed type of the same width; the width is      *)
(* scaled down so that the products stay inside TLC's integers.            *)
(***************************************************************************)
EXTENDS Integers, Sequences, FiniteSets, TLC

VARIABLES
    handles,    \* handle id -> [st, dev]: every open of a /dev/uioN that got past open()
    lock,       \* device index -> the handle whose descriptor holds the flock, 0 when free
    unlocks,    \* handle id -> how often Drop has unlocked it
    irq,        \* device index -> TRUE when the driver has interrupts enabled
    maps,       \* the mappings the kernel has granted
    last        \* the call that has just returned: its arguments and its result

vars == <<handles, lock, unlocks, irq, maps, last>>

\* ------------------------------------------------------------------ bounds
UsizeBits == 16
MaxHandles == 3
MaxMaps == 1
MaxEntries == 2

\* ------------------------------------------------------- program constants
PAGESIZE == 4096

UsizeMax == 2 ^ UsizeBits - 1
OffMax == 2 ^ (UsizeBits - 1) - 1

\* --------------------------------------------------------------- text
WhiteSpace == {" ", "\n", "\t"}

Lower16 == <<"0", "1", "2", "3", "4", "5", "6", "7", "8", "9", "a", "b", "c", "d", "e", "f">>
Upper16 == <<"0", "1", "2", "3", "4", "5", "6", "7", "8", "9", "A", "B", "C", "D", "E", "F">>

\* char::to_digit(radix): the digit's value, or -1 when c is no digit of the radix
to_digit(c, radix) ==
    IF \E i \in 1..radix : Lower16[i] = c \/ Upper16[i] = c
    THEN (CHOOSE i \in 1..radix : Lower16[i] = c \/ Upper16[i] = c) - 1
    ELSE -1

RECURSIVE TrimStart(_)
TrimStart(s) ==
    IF s # <<>> /\ Head(s) \in WhiteSpace THEN TrimStart(Tail(s)) ELSE s

RECURSIVE TrimEnd(_)
TrimEnd(s) ==
    IF s # <<>> /\ s[Len(s)] \in WhiteSpace
    THEN TrimEnd(SubSeq(s, 1, Len(s) - 1))
    ELSE s

\* str::trim
trim(s) == TrimEnd(TrimStart(s))

\* str::starts_with
starts_with(s, pre) == Len(s) >= Len(pre) /\ SubSeq(s, 1, Len(pre)) = pre

\* str::trim_start_matches: the prefix is removed as often as it matches
RECURSIVE trim_start_matches(_, _)
trim_start_matches(s, pre) ==
    IF pre # <<>> /\ starts_with(s, pre)
    THEN trim_start_matches(SubSeq(s, Len(pre) + 1, Len(s)), pre)
    ELSE s

\* The digits of usize::from_str_radix, most significant first, with the
\* checked multiply and add: "Parse" on a non-digit or on overflow.
RECURSIVE ParseDigits(_, _, _)
ParseDigits(s, radix, acc) ==
    IF s = <<>> THEN [ok |-> TRUE, val |-> acc]
    ELSE LET x == to_digit(Head(s), radix) IN
         IF x < 0 THEN [ok |-> FALSE, val |-> 0]
         ELSE IF acc * radix + x > UsizeMax THEN [ok |-> FALSE, val |-> 0]
         ELSE ParseDigits(Tail(s), radix, acc * radix + x)

\* usize::from_str_radix: empty text and a lone sign are errors, one leading
\* "+" is accepted, "-" is no digit of an unsigned type.
from_str_radix(src, radix) ==
    IF src = <<>> THEN [ok |-> FALSE, val |-> 0]
    ELSE IF Len(src) = 1 /\ Head(src) \in {"+", "-"} THEN [ok |-> FALSE, val |-> 0]
    ELSE IF Head(src) = "+" THEN ParseDigits(Tail(src), radix, 0)
    ELSE ParseDigits(src, radix, 0)

\* ------------------------------------------------------------ the sysfs
\* A file is [ok, text]: ok = FALSE when it is missing or unreadable.
File(t) == [ok |-> TRUE, text |-> t]
NoFile == [ok |-> FALSE, text |-> <<>>]

T_map == <<"m", "a", "p">>
T_good == <<"0", "x", "1", "0", "0", "0", "\n">>
T_good2 == <<"0", "x", "2", "0", "0", "0", "\n">>
T_zero == <<"0", "x", "0", "\n">>
T_bare0x == <<"0", "x", "\n">>
T_noprefix == <<"1", "0", "0", "0", "\n">>
T_junkprefix == <<"z", "z", "1", "0", "\n">>
T_short == <<"0", "\n">>
T_nothex == <<"0", "x", "z", "z", "\n">>
T_empty == <<>>
T_plus == <<"0", "x", "+", "1", "f", "\n">>
T_toobig == <<"0", "x", "f", "f", "f", "f", "f", "f", "f", "f", "f", "\n">>
T_padded == <<" ", "0", "x", "F", "f", " ", "\n">>

\* /sys/class/uio/uioN/maps/map<mapping>/size of the modelled machine: maps 0
\* and 1 are well formed, the others from 2 to 14 each show one condition,
\* and every other index has a well-formed size.
SizeFile(mapping) ==
    CASE mapping = 1 -> File(T_good2)
      [] mapping = 3 -> File(T_zero)
      [] mapping = 4 -> File(T_bare0x)
      [] mapping = 5 -> File(T_noprefix)
      [] mapping = 6 -> File(T_junkprefix)
      [] mapping = 9 -> File(T_short)
      [] mapping = 10 -> File(T_nothex)
      [] mapping = 11 -> File(T_empty)
      [] mapping = 12 -> File(T_plus)
      [] mapping = 13 -> File(T_toobig)
      [] mapping = 14 -> File(T_padded)
      [] OTHER -> File(T_good)

\* .../maps/map<mapping>/addr: map2 has no addr file
AddrFile(mapping) ==
    CASE mapping = 0 -> File(<<"0", "x", "4", "0", "0", "0", "\n">>)
      [] mapping = 1 -> File(<<"0", "x", "8", "0", "0", "0", "\n">>)
      [] mapping = 2 -> NoFile
      [] OTHER -> SizeFile(mapping)

\* .../maps/map<mapping>/name
NameFile(mapping) ==
    CASE mapping = 0 -> File(<<"c", "t", "r", "l", "\n">>)
      [] mapping = 1 -> File(<<"r", "e", "g", "s", "\n">>)
      [] OTHER -> File(<<"m", "\n">>)

\* --------------------------------------------------- attribute readers
Res(kind, val) == [kind |-> kind, val |-> val]

read_file(file) ==
    IF file.ok THEN Res("Ok", trim(file.text)) ELSE Res("Io", <<>>)

\* usize::from_str_radix(&buffer[2..], 16): the slice panics when the text
\* is shorter than two bytes; whatever the first two bytes are, they go.
ParseHexAttr(file) ==
    LET buffer == read_file(file) IN
    IF buffer.kind # "Ok" THEN Res(buffer.kind, 0)
    ELSE IF Len(buffer.val) < 2 THEN Res("Panic", 0)
    ELSE LET v == from_str_radix(SubSeq(buffer.val, 3, Len(buffer.val)), 16) IN
         IF v.ok THEN Res("Ok", v.val) ELSE Res("Parse", 0)

map_size(mapping) == ParseHexAttr(SizeFile(mapping))

map_addr(mapping) == ParseHexAttr(AddrFile(mapping))

map_name(mapping) == read_file(NameFile(mapping))

\* ------------------------------------------------- get_mapping_info
\* A directory entry of /sys/class/uio/uioN/maps/ as read_dir yields it.
\* stat: "ok", "entry_err" (the iterator yields Err) or "type_err" (file_type fails)
DirEntry(name, utf8, dir) == [name |-> name, utf8 |-> utf8, dir |-> dir, stat |-> "ok"]

E_map0 == DirEntry(T_map \o <<"0">>, TRUE, TRUE)
E_map1 == DirEntry(T_map \o <<"1">>, TRUE, TRUE)
E_map2 == DirEntry(T_map \o <<"2">>, TRUE, TRUE)
E_map10 == DirEntry(T_map \o <<"1", "0">>, TRUE, TRUE)
E_file == DirEntry(<<"u", "e", "v">>, TRUE, FALSE)
E_raw == DirEntry(<<>>, FALSE, TRUE)
E_err == [DirEntry(<<>>, TRUE, TRUE) EXCEPT !.stat = "entry_err"]

DirEntries == {E_map0, E_map1, E_map2, E_map10, E_file, E_raw, E_err}

\* The listings read_dir may yield: the entries in any order, none twice.
Listings ==
    UNION {{l \in [1..n -> DirEntries] : \A i, j \in 1..n : i # j => l[i] # l[j]} :
           n \in 0..MaxEntries}

\* What fs::read_dir finds: an unreadable directory, or one of the listings.
Dirs ==
    {[readable |-> FALSE, paths |-> <<>>]} \cup {[readable |-> TRUE, paths |-> l] : l \in Listings}

MappingInfo(index, addr, len, name) ==
    [index |-> index, addr |-> addr, len |-> len, name |-> name]

\* The loop 'each_map_dir over the entries left, map being the vector so far.
RECURSIVE each_map_dir(_, _)
each_map_dir(paths, map) ==
    IF paths = <<>> THEN Res("Ok", map)
    ELSE LET entry == Head(paths) IN
         IF entry.stat = "entry_err" THEN Res("Io", <<>>)
         ELSE IF ~entry.utf8 THEN Res("Ok", map)
         ELSE IF entry.stat = "type_err" THEN Res("Io", <<>>)
         ELSE IF ~(entry.dir /\ starts_with(entry.name, T_map)) THEN Res("Ok", map)
         ELSE LET index == from_str_radix(trim_start_matches(entry.name, T_map), 10) IN
              IF ~index.ok THEN Res("Ok", map)
              ELSE LET addr == map_addr(index.val)
                       name == map_name(index.val)
                       len == map_size(index.val)
                   IN IF addr.kind # "Ok" THEN Res(addr.kind, <<>>)
                      ELSE IF name.kind # "Ok" THEN Res(name.kind, <<>>)
                      ELSE IF len.kind # "Ok" THEN Res(len.kind, <<>>)
                      ELSE each_map_dir(Tail(paths),
                               Append(map, MappingInfo(index.val, addr.val, len.val, name.val)))

\* readable = FALSE: fs::read_dir itself fails
get_mapping_info(readable, paths) ==
    IF ~readable THEN Res("Io", <<>>) ELSE each_map_dir(paths, <<>>)

\* ----------------------------------------------------------- mappings
PROT_RW == "PROT_READ|PROT_WRITE"
MAP_SHARED == "MAP_SHARED"

\* The file a mapping is requested on: the handle's devfile, or the file
\* map_resource opens.
DevFd(h) == [kind |-> "devfile", id |-> h]
ResFd(bar_nr) == [kind |-> "resource", id |-> bar_nr]

MmapReq(fd, offset, len) ==
    [fd |-> fd, offset |-> offset, len |-> len, prot |-> PROT_RW, flags |-> MAP_SHARED]

\* Mutant of MulPagesize: the index is taken for the offset.
MulPagesize_unscaled(mapping, build) == mapping

\* mapping * PAGESIZE in usize: a debug build panics on overflow, a release
\* build wraps.  -1 stands for the panic.
MulPagesize(mapping, build) ==
    IF mapping * PAGESIZE > UsizeMax
    THEN IF build = "debug" THEN -1 ELSE (mapping * PAGESIZE) % (UsizeMax + 1)
    ELSE mapping * PAGESIZE

\* offset as libc::off_t: the same bits read as a signed number
as_off_t(offset) == IF offset > OffMax THEN offset - (UsizeMax + 1) ELSE offset

\* Mutant of NonZeroUsize_new: a zero length is let through.
NonZeroUsize_any(n) == TRUE

\* NonZeroUsize::new(n).ok_or(UioError::Size): TRUE when n is accepted
NonZeroUsize_new(n) == n # 0

\* What the kernel answers to an mmap request: a negative offset is refused,
\* anything else is the kernel's choice.
MmapAnswer(req, kernel) == IF req.offset < 0 THEN "Map" ELSE kernel

MapOut(kind, size, reqs) == [kind |-> kind, size |-> size, reqs |-> reqs]

\* map_mapping on handle h: the result kind, the size read, the requests issued
map_mapping(h, mapping, build, kernel) ==
    LET offset == MulPagesize(mapping, build)
        map_size_r == map_size(mapping)
    IN IF offset < 0 THEN MapOut("Panic", Res("None", 0), <<>>)
       ELSE IF map_size_r.kind # "Ok" THEN MapOut(map_size_r.kind, map_size_r, <<>>)
       ELSE IF ~NonZeroUsize_new(map_size_r.val) THEN MapOut("Size", map_size_r, <<>>)
       ELSE LET req == MmapReq(DevFd(h), as_off_t(offset), map_size_r.val) IN
            MapOut(MmapAnswer(req, kernel), map_size_r, <<req>>)

\* /sys/class/uio/uioN/device/resource<bar_nr>: its length in bytes, -1 when
\* the file does not exist.  resource3 is longer than usize can hold.
ResourceLen(bar_nr) ==
    CASE bar_nr = 0 -> 4096
      [] bar_nr = 1 -> 8192
      [] bar_nr = 2 -> 0
      [] bar_nr = 3 -> UsizeMax + 1
      [] OTHER -> -1

\* metadata.len() as usize
as_usize(n) == n % (UsizeMax + 1)

map_resource(bar_nr, kernel) ==
    LET len == ResourceLen(bar_nr) IN
    IF len < 0 THEN MapOut("Io", Res("None", 0), <<>>)
    ELSE LET length == as_usize(len) IN
         IF ~NonZeroUsize_new(length) THEN MapOut("Size", Res("Ok", len), <<>>)
         ELSE LET req == MmapReq(ResFd(bar_nr), 0, length) IN
              MapOut(MmapAnswer(req, kernel), Res("Ok", len), <<req>>)

\* --------------------------------------------------------- interrupts
\* transmute between u32 and [u8; 4] on a little-endian machine
to_ne_bytes(v) ==
    <<v % 256, (v \div 256) % 256, (v \div 65536) % 256, (v \div 16777216) % 256>>

from_ne_bytes(b) == b[1] + 256 * b[2] + 65536 * b[3] + 16777216 * b[4]

\* File::write / File::read answer n: -1 for an error, else the bytes moved.
\* irq_enable and irq_disable: the count is dropped.
irq_write_result(n) == IF n < 0 THEN "Io" ELSE "Ok"

\* The buffer after a read that moved n bytes of the counter into [0, 0, 0, 0]
ReadInto(counter, n) ==
    [i \in 1..4 |-> IF i <= n THEN to_ne_bytes(counter)[i] ELSE 0]

irq_wait_result(counter, n) ==
    IF n < 0 THEN Res("Io", 0) ELSE Res("Ok", from_ne_bytes(ReadInto(counter, n)))

\* The driver takes a write only as a whole s32: it switches the interrupt
\* on for a non-zero value, off for zero.
DriverWrite(state, bytes, n) == IF n = 4 THEN from_ne_bytes(bytes) # 0 ELSE state

\* ------------------------------------------------------ the machine
Handles == 1..MaxHandles

\* /dev/uio0 and /dev/uio1 exist and may be opened read/write, /dev/uio2 does
\* not exist, /dev/uio3 exists and may not be opened.
DevNums == {0, 1, 2, 3}
OpenDev(uio_num) ==
    CASE uio_num \in {0, 1} -> "Ok"
      [] uio_num = 2 -> "NotFound"
      [] OTHER -> "PermissionDenied"

Builds == {"debug", "release"}
KernelAnswers == {"Ok", "Map"}
IoCounts == {-1, 2, 4}
Counters == {1, 258}
MapArgs == {0, 1, 3, 9, 10, OffMax \div PAGESIZE, OffMax \div PAGESIZE + 1,
            UsizeMax \div PAGESIZE + 2, UsizeMax}
AttrArgs == 0..14
BarArgs == 0..4

Unused == {h \in Handles : handles[h].st = "unused"}
Fresh == CHOOSE h \in Unused : \A g \in Unused : h <= g
LiveOn(d) == {h \in Handles : handles[h].st = "live" /\ handles[h].dev = d}

RECURSIVE SumTo(_, _)
SumTo(f, n) == IF n = 0 THEN 0 ELSE f[n] + SumTo(f, n - 1)
Releases == SumTo(unlocks, MaxHandles)

\* Mutants of try_lock_exclusive: the lock is taken whoever holds it; the
\* lock is never obtained.
try_lock_always(d) == TRUE
try_lock_never(d) == FALSE

\* flock(LOCK_EX | LOCK_NB) on a fresh descriptor of device d succeeds
try_lock_exclusive(d) == lock[d] = 0

\* Mutant of lock_exclusive: the call does not wait for the holder.
lock_exclusive_nowait(d) == TRUE

\* flock(LOCK_EX) on a fresh descriptor of device d may return
lock_exclusive(d) == lock[d] = 0

\* Mutant of unlock: the drop leaves the lock in place.
unlock_noop(h) == lock

\* flock(LOCK_UN) on the descriptor of handle h
unlock(h) == [lock EXCEPT ![handles[h].dev] = IF @ = h THEN 0 ELSE @]

Init ==
    /\ handles = [h \in Handles |-> [st |-> "unused", dev |-> 0]]
    /\ lock = [d \in DevNums |-> 0]
    /\ unlocks = [h \in Handles |-> 0]
    /\ irq = [d \in DevNums |-> FALSE]
    /\ maps = {}
    /\ last = [op |-> "none"]

OpenRet(op, d, res, h, waited) ==
    [op |-> op, dev |-> d, res |-> res, handle |-> h, waited |-> waited,
     rel |-> Releases, used |-> MaxHandles - Cardinality(Unused)]

try_new(uio_num) ==
    /\ IF OpenDev(uio_num) # "Ok"
       THEN /\ last' = OpenRet("try_new", uio_num, OpenDev(uio_num), 0, FALSE)
            /\ UNCHANGED <<handles, lock>>
       ELSE IF ~try_lock_exclusive(uio_num)
       THEN /\ last' = OpenRet("try_new", uio_num, "WouldBlock", 0, FALSE)
            /\ UNCHANGED <<handles, lock>>
       ELSE /\ Unused # {}
            /\ handles' = [handles EXCEPT ![Fresh] = [st |-> "live", dev |-> uio_num]]
            /\ lock' = [lock EXCEPT ![uio_num] = Fresh]
            /\ last' = OpenRet("try_new", uio_num, "Ok", Fresh, FALSE)
    /\ UNCHANGED <<unlocks, irq, maps>>

\* blocking_new up to the point where flock returns or puts the caller to sleep
blocking_new(uio_num) ==
    /\ IF OpenDev(uio_num) # "Ok"
       THEN /\ last' = OpenRet("blocking_new", uio_num, OpenDev(uio_num), 0, FALSE)
            /\ UNCHANGED <<handles, lock>>
       ELSE /\ Unused # {}
            /\ IF lock_exclusive(uio_num)
               THEN /\ handles' = [handles EXCEPT ![Fresh] =
                                       [st |-> "live", dev |-> uio_num]]
                    /\ lock' = [lock EXCEPT ![uio_num] = Fresh]
                    /\ last' = OpenRet("blocking_new", uio_num, "Ok", Fresh, FALSE)
               ELSE /\ handles' = [handles EXCEPT ![Fresh] =
                                       [st |-> "waiting", dev |-> uio_num]]
                    /\ last' = OpenRet("blocking_new_sleep", uio_num, "Pending", Fresh, TRUE)
                    /\ UNCHANGED lock
    /\ UNCHANGED <<unlocks, irq, maps>>

\* the sleeping flock of handle h is granted and blocking_new returns the handle
lock_granted(h) ==
    /\ handles[h].st = "waiting"
    /\ lock_exclusive(handles[h].dev)
    /\ handles' = [handles EXCEPT ![h].st = "live"]
    /\ lock' = [lock EXCEPT ![handles[h].dev] = h]
    /\ last' = OpenRet("blocking_new", handles[h].dev, "Ok", h, TRUE)
    /\ UNCHANGED <<unlocks, irq, maps>>

\* the sleeping flock of handle h fails (a signal: EINTR); the ? returns the
\* error and the descriptor is closed
lock_interrupted(h) ==
    /\ handles[h].st = "waiting"
    /\ handles' = [handles EXCEPT ![h].st = "failed"]
    /\ last' = OpenRet("blocking_new", handles[h].dev, "Interrupted", h, TRUE)
    /\ UNCHANGED <<lock, unlocks, irq, maps>>

\* impl Drop for UioDevice, then the close of devfile.  flock(LOCK_UN) on an
\* open descriptor does not fail, so the expect never panics.
drop(h) ==
    /\ handles[h].st = "live"
    /\ lock' = unlock(h)
    /\ unlocks' = [unlocks EXCEPT ![h] = @ + 1]
    /\ handles' = [handles EXCEPT ![h].st = "dropped"]
    /\ last' = [op |-> "drop", handle |-> h, dev |-> handles[h].dev, rel |-> Releases]
    /\ UNCHANGED <<irq, maps>>

Usable(h) == handles[h].st = "live"

IrqRet(op, h, bytes, n, res, before) ==
    [op |-> op, handle |-> h, dev |-> handles[h].dev, bytes |-> bytes, n |-> n,
     res |-> res, irq |-> before, lock |-> lock, maps |-> maps]

irq_enable(h, n) ==
    /\ Usable(h)
    /\ LET bytes == to_ne_bytes(1) IN
       /\ irq' = [irq EXCEPT ![handles[h].dev] = DriverWrite(@, bytes, n)]
       /\ last' = IrqRet("irq_enable", h, bytes, n, irq_write_result(n), irq[handles[h].dev])
    /\ UNCHANGED <<handles, lock, unlocks, maps>>

irq_disable(h, n) ==
    /\ Usable(h)
    /\ LET bytes == to_ne_bytes(0) IN
       /\ irq' = [irq EXCEPT ![handles[h].dev] = DriverWrite(@, bytes, n)]
       /\ last' = IrqRet("irq_disable", h, bytes, n, irq_write_result(n), irq[handles[h].dev])
    /\ UNCHANGED <<handles, lock, unlocks, maps>>

irq_wait(h, counter, n) ==
    /\ Usable(h)
    /\ last' = [op |-> "irq_wait", handle |-> h, counter |-> counter, n |-> n,
                res |-> irq_wait_result(counter, n)]
    /\ UNCHANGED <<handles, lock, unlocks, irq, maps>>

\* A granted request becomes a mapping; the model holds at most MaxMaps.
Granted(out) ==
    IF out.kind = "Ok" THEN maps \cup {out.reqs[1]} ELSE maps

map_mapping_call(h, mapping, build, kernel) ==
    /\ Usable(h)
    /\ LET out == map_mapping(h, mapping, build, kernel) IN
       /\ Cardinality(Granted(out)) <= MaxMaps
       /\ maps' = Granted(out)
       /\ last' = [op |-> "map_mapping", handle |-> h, mapping |-> mapping, out |-> out]
    /\ UNCHANGED <<handles, lock, unlocks, irq>>

map_resource_call(h, bar_nr, kernel) ==
    /\ Usable(h)
    /\ LET out == map_resource(bar_nr, kernel) IN
       /\ Cardinality(Granted(out)) <= MaxMaps
       /\ maps' = Granted(out)
       /\ last' = [op |-> "map_resource", handle |-> h, bar_nr |-> bar_nr, out |-> out]
    /\ UNCHANGED <<handles, lock, unlocks, irq>>

map_size_call(h, mapping) ==
    /\ Usable(h)
    /\ last' = [op |-> "map_size", handle |-> h, file |-> SizeFile(mapping),
                res |-> map_size(mapping)]
    /\ UNCHANGED <<handles, lock, unlocks, irq, maps>>

map_addr_call(h, mapping) ==
    /\ Usable(h)
    /\ last' = [op |-> "map_addr", handle |-> h, file |-> AddrFile(mapping),
                res |-> map_addr(mapping)]
    /\ UNCHANGED <<handles, lock, unlocks, irq, maps>>

get_mapping_info_call(h, readable, paths) ==
    /\ Usable(h)
    /\ last' = [op |-> "get_mapping_info", handle |-> h, readable |-> readable,
                paths |-> paths, res |-> get_mapping_info(readable, paths)]
    /\ UNCHANGED <<handles, lock, unlocks, irq, maps>>

\* The calls that open and drop handles.
Lifecycle ==
    \/ \E d \in DevNums : try_new(d)
    \/ \E d \in DevNums : blocking_new(d)
    \/ \E h \in Handles : lock_granted(h)
    \/ \E h \in Handles : lock_interrupted(h)
    \/ \E h \in Handles : drop(h)

\* Every call in any order, the calls on a handle with a few arguments each.
Next ==
    \/ Lifecycle
    \/ \E h \in Handles, n \in IoCounts : irq_enable(h, n)
    \/ \E h \in Handles, n \in IoCounts : irq_disable(h, n)
    \/ \E h \in Handles, n \in IoCounts : irq_wait(h, 1, n)
    \/ \E h \in Handles, i \in {0, 3}, k \in KernelAnswers :
           map_mapping_call(h, i, "release", k)
    \/ \E h \in Handles, k \in KernelAnswers : map_resource_call(h, 2, k)
    \/ \E h \in Handles : map_size_call(h, 0)
    \/ \E h \in Handles : map_addr_call(h, 2)
    \/ \E h \in Handles : get_mapping_info_call(h, TRUE, <<E_map0, E_map2>>)

Spec == Init /\ [][Next]_vars

\* The calls on one handle with all their arguments: the state is the one
\* try_new(0) returns in, and the handle is kept.
CallInit ==
    /\ handles = [h \in Handles |-> IF h = 1 THEN [st |-> "live", dev |-> 0]
                                              ELSE [st |-> "unused", dev |-> 0]]
    /\ lock = [d \in DevNums |-> IF d = 0 THEN 1 ELSE 0]
    /\ unlocks = [h \in Handles |-> 0]
    /\ irq = [d \in DevNums |-> FALSE]
    /\ maps = {}
    /\ last = [op |-> "try_new", dev |-> 0, res |-> "Ok", handle |-> 1, waited |-> FALSE,
               rel |-> 0, used |-> 0]

CallNext ==
    \/ \E h \in Handles, n \in IoCounts : irq_enable(h, n)
    \/ \E h \in Handles, n \in IoCounts : irq_disable(h, n)
    \/ \E h \in Handles, c \in Counters, n \in IoCounts : irq_wait(h, c, n)
    \/ \E h \in Handles, i \in MapArgs, b \in Builds, k \in KernelAnswers :
           map_mapping_call(h, i, b, k)
    \/ \E h \in Handles, r \in BarArgs, k \in KernelAnswers : map_resource_call(h, r, k)
    \/ \E h \in Handles, i \in AttrArgs : map_size_call(h, i)
    \/ \E h \in Handles, i \in AttrArgs : map_addr_call(h, i)
    \/ \E h \in Handles, d \in Dirs : get_mapping_info_call(h, d.readable, d.paths)

CallSpec == CallInit /\ [][CallNext]_vars

\* The opens and drops alone.  The kernel wakes a sleeping flock on every
\* release, so a sleeper that finds the lock free again and again is not passed
\* over for ever; and every holder drops its handle in the end.
FairSpec ==
    /\ Init
    /\ [][Lifecycle]_vars
    /\ \A h \in Handles : SF_vars(lock_granted(h))
    /\ \A h \in Handles : WF_vars(drop(h))
\* ================================================================ claims
Live == {h \in Handles : handles[h].st = "live"}
OpenOps == {"try_new", "blocking_new", "blocking_new_sleep"}
IrqWriteOps == {"irq_enable", "irq_disable"}
MapOpNames == {"map_mapping", "map_resource"}

\* C1: every live handle of device N holds the exclusive lock of /dev/uioN,
\* so no device has two live handles, whatever calls have been made.
C1_LockHeld ==
    /\ \A h \in Live : lock[handles[h].dev] = h
    /\ \A d \in DevNums : Cardinality(LiveOn(d)) <= 1

\* C1: handles of two devices are live, one has been dropped before, and an
\* enumeration has just returned.
C1_Witness ==
    /\ Cardinality(Live) = 2
    /\ \E h \in Handles : handles[h].st = "dropped"
    /\ last.op = "get_mapping_info"

\* C2: try_new on a device whose file can be opened returns WouldBlock, makes
\* no handle and leaves the holder's lock alone while a handle of the device is
\* live; when none is live (the holder has been dropped) it returns a handle
\* that holds the lock.
C2_TryNew ==
    (last.op = "try_new" /\ OpenDev(last.dev) = "Ok") =>
        LET others == LiveOn(last.dev) \ {last.handle} IN
        IF others # {}
        THEN /\ last.res = "WouldBlock"
             /\ last.handle = 0
             /\ MaxHandles - Cardinality(Unused) = last.used
             /\ \A h \in others : lock[last.dev] = h
        ELSE /\ last.res = "Ok"
             /\ last.handle \in LiveOn(last.dev)
             /\ lock[last.dev] = last.handle

\* C2: try_new has returned a handle of a device whose earlier handle was dropped.
C2_Witness ==
    /\ last.op = "try_new"
    /\ last.res = "Ok"
    /\ \E h \in Handles : handles[h].st = "dropped" /\ handles[h].dev = last.dev

\* C3: a handle has been unlocked once when it has been dropped and never
\* before; the drop is the release; an open that fails releases nothing; and
\* no lock is held but by a live handle.
C3_ReleasedOnce ==
    /\ \A h \in Handles : unlocks[h] = IF handles[h].st = "dropped" THEN 1 ELSE 0
    /\ \A d \in DevNums : lock[d] # 0 => lock[d] \in LiveOn(d)
    /\ last.op = "drop" => Releases = last.rel + 1 /\ lock[last.dev] = 0
    /\ (last.op \in OpenOps /\ last.res # "Ok") =>
           /\ Releases = last.rel
           /\ last.handle # 0 => lock[last.dev] # last.handle

\* C3: a handle has just been dropped and an interrupted blocking_new has
\* failed before.
C3_Witness ==
    /\ last.op = "drop"
    /\ \E h \in Handles : handles[h].st = "failed"

\* Whether a directory entry is a map directory the loop reads, and its index.
IsMapDir(e) ==
    /\ e.stat = "ok" /\ e.utf8 /\ e.dir /\ starts_with(e.name, T_map)
    /\ from_str_radix(trim_start_matches(e.name, T_map), 10).ok
IndexOf(e) == from_str_radix(trim_start_matches(e.name, T_map), 10).val
AttrsOk(e) ==
    /\ map_addr(IndexOf(e)).kind = "Ok"
    /\ map_name(IndexOf(e)).kind = "Ok"
    /\ map_size(IndexOf(e)).kind = "Ok"

\* C4: get_mapping_info returns no error for a bad map entry: when the first
\* map directory whose addr, size or name cannot be read or parsed is entry k
\* of the listing, the call returns Ok with the k - 1 entries before it, in order.
C4_Claim ==
    (last.op = "get_mapping_info" /\ last.readable) =>
        \A k \in 1..Len(last.paths) :
            (/\ IsMapDir(last.paths[k]) /\ ~AttrsOk(last.paths[k])
             /\ \A j \in 1..(k - 1) : IsMapDir(last.paths[j]) /\ AttrsOk(last.paths[j]))
            => /\ last.res.kind = "Ok"
               /\ Len(last.res.val) = k - 1
               /\ \A j \in 1..(k - 1) : last.res.val[j].index = IndexOf(last.paths[j])

\* C5: irq_enable, irq_disable and irq_wait return Ok exactly when all 4 bytes
\* have been moved, and an I/O error when the write or read fails or is short.
C5_Claim ==
    /\ last.op \in IrqWriteOps => (last.res = "Ok" <=> last.n = 4)
    /\ last.op = "irq_wait" => (last.res.kind = "Ok" <=> last.n = 4)

\* C6: map_mapping returns Size exactly when the size it read is zero,
\* map_resource returns Size when the length it read is zero, neither asks
\* for a mapping of length zero, and no mapping has length zero.
C6_Size ==
    /\ last.op = "map_mapping" =>
           (last.out.kind = "Size" <=> (last.out.size.kind = "Ok" /\ last.out.size.val = 0))
    /\ (last.op = "map_resource" /\ last.out.size.kind = "Ok" /\ last.out.size.val = 0) =>
           last.out.kind = "Size"
    /\ last.op \in MapOpNames =>
           /\ \A i \in 1..Len(last.out.reqs) : last.out.reqs[i].len # 0
           /\ last.out.kind = "Size" => last.out.reqs = <<>>
    /\ \A m \in maps : m.len # 0

\* C6: map_mapping has just returned Size for a map whose size attribute is zero.
C6_Witness ==
    /\ last.op = "map_mapping"
    /\ last.out.kind = "Size"
    /\ last.out.size.val = 0

\* The one request C7 expects of map_mapping for the last call.
C7_Request ==
    <<[fd |-> [kind |-> "devfile", id |-> last.handle],
       offset |-> last.mapping * 4096,
       len |-> map_size(last.mapping).val,
       prot |-> "PROT_READ|PROT_WRITE",
       flags |-> "MAP_SHARED"]>>

C7_SizeNonZero ==
    map_size(last.mapping).kind = "Ok" /\ map_size(last.mapping).val # 0

\* C7 as claimed: for every index i whose size parses to s # 0, map_mapping(i)
\* issues one request on the handle's descriptor with offset i * 4096,
\* length s, MAP_SHARED, PROT_READ|PROT_WRITE, for every usize i.
C7_Original ==
    (last.op = "map_mapping" /\ C7_SizeNonZero) => last.out.reqs = C7_Request

\* C7 as amended: the same for every index i with i * 4096 no larger than
\* the largest off_t and the largest usize.
C7_Amended ==
    (/\ last.op = "map_mapping"
     /\ C7_SizeNonZero
     /\ last.mapping * 4096 <= OffMax
     /\ last.mapping * 4096 <= UsizeMax) =>
        last.out.reqs = C7_Request

\* C7: the largest index whose offset fits off_t has been mapped.
C7_Witness ==
    /\ last.op = "map_mapping"
    /\ last.mapping = OffMax \div 4096
    /\ last.mapping > 1
    /\ last.out.kind = "Ok"

\* C8, the part about states: blocking_new never returns WouldBlock, the
\* handle it returns is the only live one of its device and holds the lock,
\* it sleeps only while a handle of the device is live, and a sleeper holds
\* no lock.
C8_Safe ==
    /\ last.op \in {"blocking_new", "blocking_new_sleep"} => last.res # "WouldBlock"
    /\ (last.op = "blocking_new" /\ last.res = "Ok") =>
           LiveOn(last.dev) = {last.handle} /\ lock[last.dev] = last.handle
    /\ last.op = "blocking_new_sleep" =>
           LiveOn(last.dev) # {} /\ handles[last.handle].st = "waiting"
    /\ \A h \in Handles : handles[h].st = "waiting" => lock[handles[h].dev] # h

IsPrefixedHex(t) ==
    /\ Len(t) >= 3
    /\ t[1] = "0" /\ t[2] = "x"
    /\ \A i \in 3..Len(t) : to_digit(t[i], 16) >= 0

\* C9: map_size and map_addr return the value of the hex digits when the
\* trimmed text is 0x and hex digits (and the value fits usize), and Parse
\* for every other text.
C9_Claim ==
    (last.op \in {"map_size", "map_addr"} /\ last.file.ok) =>
        LET t == trim(last.file.text) IN
        IF IsPrefixedHex(t)
        THEN LET v == ParseDigits(SubSeq(t, 3, Len(t)), 16, 0) IN
             v.ok => last.res = Res("Ok", v.val)
        ELSE last.res.kind = "Parse"

\* C10: interrupts start disabled; an irq_enable that returns Ok has written
\* the value 1 and leaves them enabled, an irq_disable that returns Ok has
\* written 0 and leaves them disabled; neither touches the locks or the mappings.
C10_Claim ==
    /\ last.op = "none" => \A d \in DevNums : ~irq[d]
    /\ (last.op = "irq_enable" /\ last.res = "Ok") =>
           from_ne_bytes(last.bytes) = 1 /\ irq[last.dev]
    /\ (last.op = "irq_disable" /\ last.res = "Ok") =>
           from_ne_bytes(last.bytes) = 0 /\ ~irq[last.dev]
    /\ last.op \in IrqWriteOps => lock = last.lock /\ maps = last.maps
====
